---------------------------- MODULE Spec2Model ----------------------------
(***************************************************************************)
(* A model of the build-event-protocol analyzer: the accumulator           *)
(* (StaticBepAnalyzer), the named-set resolver, the live tailing           *)
(* ingestor (LiveBepAnalyzer), report generation from a snapshot, and the  *)
(* stream simulator.                                                       *)
(*                                                                         *)
(* Text is modelled as sequences of one-character strings wherever the     *)
(* code looks inside it (labels, paths, patterns); optional values         *)
(* (null / undefined) are sequences of length 0 or 1.                      *)
(***************************************************************************)
EXTENDS Integers, Sequences, FiniteSets, TLC

VARIABLES
    analyzer,     \* the fields of a StaticBepAnalyzer (inherited by the live one)
    stream,       \* history: the events handed to processEvent, in order
    live,         \* the fields LiveBepAnalyzer adds
    tail,         \* the Tail, the checkFinished interval and tailFile's promise
    replica,      \* a StaticBepAnalyzer replaying the lines the tail delivered
    lastOp,       \* history: the callback that ran last
    rs,           \* resolveFileSet's locals and position
    reportData,   \* the ReportData returned by getReportData
    report,       \* position of the report generation of the command handler
    sim,          \* simulateBepStream's locals and position
    sink          \* the simulator's target stream

vars == <<analyzer, stream, live, tail, replica, lastOp, rs, reportData, report, sim, sink>>

-----------------------------------------------------------------------------
(* Optional values and maps *)

None == <<>>
Some(x) == <<x>>
IsSome(m) == Len(m) > 0
Get(m) == m[1]

EmptyMap == [k \in {} |-> None]
MapHas(m, k) == k \in DOMAIN m
MapSet(m, k, v) == [x \in (DOMAIN m) \cup {k} |-> IF x = k THEN v ELSE m[x]]
MapDelete(m, k) == [x \in (DOMAIN m) \ {k} |-> m[x]]

RECURSIVE SeqConcat(_)
SeqConcat(ss) == IF ss = <<>> THEN <<>> ELSE Head(ss) \o SeqConcat(Tail(ss))

-----------------------------------------------------------------------------
(* Text helpers: a text is a sequence of one-character strings *)

\* part.split(sep).pop(): the part after the last separator
LastSegment(t, seps) ==
    IF t = <<>> THEN <<>>
    ELSE IF \E i \in 1..Len(t) : t[i] \in seps
         THEN LET i == CHOOSE j \in 1..Len(t) :
                         t[j] \in seps /\ \A k \in (j+1)..Len(t) : t[k] \notin seps
              IN SubSeq(t, i + 1, Len(t))
         ELSE t

\* part.split(sep).shift(): the part before the first separator
FirstSegment(t, seps) ==
    IF \E i \in 1..Len(t) : t[i] \in seps
    THEN LET i == CHOOSE j \in 1..Len(t) :
                    t[j] \in seps /\ \A k \in 1..(j-1) : t[k] \notin seps
         IN SubSeq(t, 1, i - 1)
    ELSE t

getFileStem(filePath) ==
    IF filePath = <<>> THEN <<>>
    ELSE FirstSegment(LastSegment(filePath, {"/", "\\"}), {"."})

\* label.replace(/^(@@?)/, "")
StripAt(label) ==
    IF Len(label) >= 2 /\ label[1] = "@" /\ label[2] = "@" THEN SubSeq(label, 3, Len(label))
    ELSE IF Len(label) >= 1 /\ label[1] = "@" THEN SubSeq(label, 2, Len(label))
    ELSE label

StartsWith(t, p) == Len(p) <= Len(t) /\ SubSeq(t, 1, Len(p)) = p

FileScheme == <<"f", "i", "l", "e", ":", "/", "/">>

-----------------------------------------------------------------------------
(* StaticBepAnalyzer: the accumulator *)

\* The files the action events' stderr URIs may name: present ones map to their
\* content.  "u1" exists, "u2" was cleaned up, "bad" is not a file: URL.
StderrFiles == MapSet(EmptyMap, "u1", <<"stderr-of-u1">>)

NewAnalyzer(actionDetails) ==
    [ buildStarted |-> None, buildFinished |-> None,
      buildMetrics |-> None, buildToolLogs |-> None,
      actions |-> <<>>, testSummaries |-> <<>>, problems |-> <<>>,
      failedTargets |-> <<>>, workspaceStatus |-> None,
      configurations |-> EmptyMap, optionsParsed |-> None,
      structuredCommandLine |-> None, buildPatterns |-> <<>>,
      namedSets |-> EmptyMap, convenienceSymlinks |-> <<>>,
      topLevelOutputSets |-> EmptyMap,
      progressStderrCache |-> EmptyMap, actionStrategyCache |-> EmptyMap,
      actionDetails |-> actionDetails ]

\* const data = event.payload || event
Data(event) == IF "payload" \in DOMAIN event THEN event.payload ELSE event

Has(obj, field) == field \in DOMAIN obj

\* data.progress?.stderr || data.progress?.stdout || "": a text is a sequence of
\* frames (separated in the payload by the cursor-reposition sequence), a frame a
\* sequence of lines, a line the record of what the code's patterns find in it.
ProgressText(data) ==
    IF ~Has(data, "progress") THEN <<>>
    ELSE IF Has(data.progress, "stderr") /\ data.progress.stderr # <<>> THEN data.progress.stderr
    ELSE IF Has(data.progress, "stdout") THEN data.progress.stdout
    ELSE <<>>

RECURSIVE CacheStrategies(_, _)
CacheStrategies(cache, lines) ==
    IF lines = <<>> THEN cache
    ELSE LET line == Head(lines)
             stem == getFileStem(line.description)
             next == IF line.kind = "action" /\ line.strategy # "" /\ stem # <<>>
                     THEN MapSet(cache, stem, line.strategy)
                     ELSE cache
         IN CacheStrategies(next, Tail(lines))

RECURSIVE CacheStderr(_, _, _)
CacheStderr(cache, children, cleanedStderr) ==
    IF children = <<>> THEN cache
    ELSE LET child == Head(children)
             next == IF child.kind = "actionCompleted" /\ child.label # <<>>
                     THEN MapSet(cache, child.label, cleanedStderr)
                     ELSE cache
         IN CacheStderr(next, Tail(children), cleanedStderr)

IsRelevantLine(line) == line.relevant

ProcessProgress(s, event) ==
    LET fullStderr == SeqConcat(ProgressText(Data(event)))
        strategies == CacheStrategies(s.actionStrategyCache, fullStderr)
        cleanedStderr == SelectSeq(fullStderr, IsRelevantLine)
        stderrs == IF cleanedStderr # <<>> /\ Has(event, "children")
                   THEN CacheStderr(s.progressStderrCache, event.children, cleanedStderr)
                   ELSE s.progressStderrCache
    IN [s EXCEPT !.actionStrategyCache = strategies, !.progressStderrCache = stderrs]

\* The wall time of an action without actionResult (lines 169-184).  A time
\* field is a date string: valid with its epoch milliseconds, or one that Date
\* cannot parse.  new Date(x).getTime() is NaN for the latter and does not
\* throw, so the catch is never entered and (NaN).toString() is stored.
DerivedWallTime(actionData) ==
    IF Has(actionData, "startTime") /\ Has(actionData, "endTime")
    THEN IF actionData.startTime.valid /\ actionData.endTime.valid
         THEN [text |-> "number", ms |-> actionData.endTime.ms - actionData.startTime.ms]
         ELSE [text |-> "NaN", ms |-> 0]
    ELSE [text |-> "number", ms |-> 0]

WallTimeOf(actionData) ==
    IF Has(actionData, "actionResult")
    THEN [text |-> "number", ms |-> actionData.actionResult.executionInfo.wallTimeMillis]
    ELSE DerivedWallTime(actionData)

KeepStrategy(cache, stem) == cache

\* this.actionStrategyCache.delete(stem) once the strategy is attached
ConsumeStrategy(cache, stem) == MapDelete(cache, stem)

shouldProcessDetailsUnlessNone(actionDetails, success) == actionDetails # "none"

shouldProcessDetails(actionDetails, success) ==
    actionDetails = "all" \/ (actionDetails = "failed" /\ ~success)

\* The stderr content read through the URI of the payload (lines 211-227)
StderrFromUri(uri, success) ==
    IF uri = "bad" THEN [from |-> "uriError", text |-> <<uri>>]
    ELSE IF MapHas(StderrFiles, uri) THEN [from |-> "file", text |-> StderrFiles[uri]]
    ELSE IF success THEN [from |-> "info", text |-> <<>>]
    ELSE [from |-> "error", text |-> <<uri>>]

ArgvOf(payload) ==
    IF Has(payload, "commandLine") THEN Some(payload.commandLine)
    ELSE IF Has(payload, "argv") THEN Some(payload.argv)
    ELSE None

\* this.actions.push(action)
PushAction(actions, action) == Append(actions, action)

ProcessActionCompleted(s, event) ==
    LET id == event.id
        data == Data(event)
    IN IF ~(Has(data, "completed") \/ Has(data, "action")) THEN s
       ELSE
       LET actionData == IF Has(data, "completed") THEN data.completed ELSE data.action
           label == IF id.label # <<>> THEN id.label ELSE id.primaryOutput
           uri == IF id.primaryOutput # <<>> THEN FileScheme \o id.primaryOutput
                  ELSE IF Has(actionData, "primaryOutput") THEN actionData.primaryOutput.uri
                  ELSE <<>>
           mnemonic == IF actionData.mnemonic = "" /\ Has(actionData, "type")
                       THEN actionData.type ELSE actionData.mnemonic
           stem == getFileStem(uri)
           hit == uri # <<>> /\ MapHas(s.actionStrategyCache, stem)
           strategy == IF hit THEN Some(s.actionStrategyCache[stem]) ELSE None
           strategies == IF hit THEN ConsumeStrategy(s.actionStrategyCache, stem)
                         ELSE s.actionStrategyCache
           details == shouldProcessDetails(s.actionDetails, actionData.success)
           fullActionPayload == IF Has(data, "action") THEN data.action ELSE data.completed
           cached == details /\ label # <<>> /\ MapHas(s.progressStderrCache, label)
           stderrContent ==
               IF ~details THEN None
               ELSE IF cached THEN Some([from |-> "progress", text |-> s.progressStderrCache[label]])
               ELSE IF Has(fullActionPayload, "stderr")
                    THEN Some(StderrFromUri(fullActionPayload.stderr.uri, actionData.success))
                    ELSE None
           action == [ success |-> actionData.success,
                       mnemonic |-> mnemonic,
                       label |-> label,
                       primaryOutput |-> uri,
                       wallTimeMillis |-> WallTimeOf(actionData).ms,
                       wallTimeText |-> WallTimeOf(actionData).text,
                       strategy |-> strategy,
                       argv |-> IF details THEN ArgvOf(fullActionPayload) ELSE None,
                       stderrContent |-> stderrContent ]
       IN [s EXCEPT !.actions = PushAction(@, action),
                    !.actionStrategyCache = strategies,
                    !.progressStderrCache =
                        IF cached THEN MapDelete(@, label) ELSE @]

\* this.testSummaries.findIndex((s) => s.label === summary.label)
findIndex(summaries, label) ==
    IF \E i \in 1..Len(summaries) : summaries[i].label = label
    THEN CHOOSE i \in 1..Len(summaries) :
             summaries[i].label = label /\ \A j \in 1..(i-1) : summaries[j].label # label
    ELSE 0

UpsertSummaryAlwaysPush(summaries, summary) == Append(summaries, summary)

UpsertSummary(summaries, summary) ==
    LET existingIndex == findIndex(summaries, summary.label)
    IN IF existingIndex > 0 THEN [summaries EXCEPT ![existingIndex] = summary]
       ELSE Append(summaries, summary)

ProcessTestSummary(s, event) ==
    LET data == Data(event)
    IN IF ~Has(data, "summary") THEN s
       ELSE LET summary == [data.summary EXCEPT !.label = event.id.label]
            IN [s EXCEPT !.testSummaries = UpsertSummary(@, summary)]

\* completedData.outputGroup?.flatMap((group) => group.fileSets?.map((fs) => fs.id) || []) || []
RECURSIVE FlatFileSetIds(_)
FlatFileSetIds(groups) ==
    IF groups = <<>> THEN <<>>
    ELSE (IF Has(Head(groups), "fileSets") THEN Head(groups).fileSets ELSE <<>>)
         \o FlatFileSetIds(Tail(groups))

MatchesPattern(buildPatterns, label) ==
    \E i \in 1..Len(buildPatterns) : StartsWith(StripAt(label), StripAt(buildPatterns[i]))

ProcessTargetCompleted(s, event) ==
    LET id == event.id
        data == Data(event)
    IN IF ~Has(data, "completed") THEN s
       ELSE LET completedData == data.completed
                fileSetIds == IF Has(completedData, "outputGroup")
                              THEN FlatFileSetIds(completedData.outputGroup) ELSE <<>>
            IN IF ~completedData.success
               THEN [s EXCEPT !.failedTargets =
                         Append(@, [label |-> id.label, configId |-> id.configId])]
               ELSE IF MatchesPattern(s.buildPatterns, id.label) /\ Len(fileSetIds) > 0
               THEN [s EXCEPT !.topLevelOutputSets = MapSet(@, id.label, fileSetIds)]
               ELSE s

RecordUnknown(s, event) == [s EXCEPT !.problems = Append(@, [message |-> event.id.kind])]

\* default: break (no other event type is handled)
IgnoreUnknown(s, event) == s

\* The cases of the switch
HandledKinds ==
    { "actionCompleted", "testSummary", "problem", "targetCompleted", "workspaceStatus",
      "optionsParsed", "structuredCommandLine", "pattern", "namedSet",
      "convenienceSymlinksIdentified", "configuration", "buildMetrics", "buildToolLogs" }

\* switch (Object.keys(id)[0])
Dispatch(s, event) ==
    LET id == event.id
        data == Data(event)
    IN CASE id.kind = "actionCompleted" -> ProcessActionCompleted(s, event)
         [] id.kind = "testSummary" -> ProcessTestSummary(s, event)
         [] id.kind = "problem" ->
              IF Has(data, "problem") THEN [s EXCEPT !.problems = Append(@, data.problem)] ELSE s
         [] id.kind = "targetCompleted" -> ProcessTargetCompleted(s, event)
         [] id.kind = "workspaceStatus" ->
              IF Has(data, "workspaceStatus")
              THEN [s EXCEPT !.workspaceStatus = Some(data.workspaceStatus)] ELSE s
         [] id.kind = "optionsParsed" ->
              IF Has(data, "optionsParsed")
              THEN [s EXCEPT !.optionsParsed = Some(data.optionsParsed)] ELSE s
         [] id.kind = "structuredCommandLine" ->
              IF Has(data, "structuredCommandLine")
                 /\ data.structuredCommandLine.commandLineLabel = "canonical"
              THEN [s EXCEPT !.structuredCommandLine = Some(data.structuredCommandLine)] ELSE s
         [] id.kind = "pattern" ->
              IF Has(id, "pattern") THEN [s EXCEPT !.buildPatterns = @ \o id.pattern] ELSE s
         [] id.kind = "namedSet" ->
              IF id.id # "" /\ Has(data, "namedSetOfFiles")
              THEN [s EXCEPT !.namedSets = MapSet(@, id.id, data.namedSetOfFiles)] ELSE s
         [] id.kind = "convenienceSymlinksIdentified" ->
              IF Has(data, "convenienceSymlinksIdentified")
              THEN [s EXCEPT !.convenienceSymlinks =
                        @ \o data.convenienceSymlinksIdentified.convenienceSymlinks]
              ELSE s
         [] id.kind = "configuration" ->
              IF Has(data, "configuration")
              THEN [s EXCEPT !.configurations = MapSet(@, id.id, data.configuration)] ELSE s
         [] id.kind = "buildMetrics" ->
              IF Has(event, "buildMetrics")
              THEN [s EXCEPT !.buildMetrics = Some(event.buildMetrics)] ELSE s
         [] id.kind = "buildToolLogs" ->
              IF Has(event, "buildToolLogs")
              THEN [s EXCEPT !.buildToolLogs = Some(event.buildToolLogs)] ELSE s
         [] OTHER -> IgnoreUnknown(s, event)

IsStartedId(id) == id.kind \in {"buildStarted", "started"}
IsFinishedId(id) == id.kind \in {"buildFinished", "finished"}

\* StaticBepAnalyzer.processEvent
ProcessEvent(s, event) ==
    LET id == event.id
        data == Data(event)
    IN IF IsStartedId(id)
       THEN (IF Has(data, "started") THEN [s EXCEPT !.buildStarted = Some(data.started)] ELSE s)
       ELSE IF IsFinishedId(id)
       THEN (IF Has(data, "finished") THEN [s EXCEPT !.buildFinished = Some(data.finished)] ELSE s)
       ELSE IF id.kind = "progress" /\ ProgressText(data) # <<>>
       THEN Dispatch(ProcessProgress(s, event), event)
       ELSE Dispatch(s, event)

-----------------------------------------------------------------------------
(* LiveBepAnalyzer *)

DisplayModes == {"dashboard", "vscode-log", "vscode-status"}

\* private readonly spinner = [...]: its length
SpinnerLength == 10

\* while (this.recentLogs.length > 5)
MaxRecentLogs == 5

NewLive(displayMode) ==
    [ progressText |-> <<>>, runningTime |-> 0, isFinished |-> FALSE, timer |-> FALSE,
      intervals |-> 0,
      spinnerIndex |-> 0, recentLogs |-> <<>>,
      lastProgressTotal |-> 0, lastProgressCompleted |-> 0, lastCurrentLabel |-> <<>>,
      displayMode |-> displayMode,
      ticks |-> 0, renders |-> 0, finalRenders |-> 0, logLines |-> 0, finishTotal |-> None ]

\* runningActions.sort((a, b) => parseInt(b.duration) - parseInt(a.duration)): a
\* stable insertion into a list kept in descending order of duration
RECURSIVE InsertByDuration(_, _)
InsertByDuration(sorted, a) ==
    IF sorted = <<>> THEN <<a>>
    ELSE IF Head(sorted).duration >= a.duration
         THEN <<Head(sorted)>> \o InsertByDuration(Tail(sorted), a)
         ELSE <<a>> \o sorted

RECURSIVE SortByDuration(_)
SortByDuration(list) ==
    IF list = <<>> THEN <<>>
    ELSE InsertByDuration(SortByDuration(SubSeq(list, 1, Len(list) - 1)), list[Len(list)])

RECURSIVE ParseLines(_, _)
ParseLines(lines, info) ==
    IF lines = <<>> THEN info
    ELSE LET line == Head(lines)
             next ==
               CASE line.kind = "counter" ->
                      [info EXCEPT !.completed = line.completed, !.total = line.total,
                                   !.currentLabel = IF line.label # <<>> THEN line.label ELSE @]
                 [] line.kind = "action" ->
                      [info EXCEPT !.runningActions =
                           Append(@, [name |-> line.description, duration |-> line.duration])]
                 [] OTHER ->
                      IF line.relevant THEN [info EXCEPT !.logs = Append(@, line.text)] ELSE info
         IN ParseLines(Tail(lines), next)

parseProgressAllFrames(text) ==
    LET info == ParseLines(SeqConcat(text),
                           [completed |-> 0, total |-> 0, runningActions |-> <<>>,
                            logs |-> <<>>, currentLabel |-> <<>>])
    IN [info EXCEPT !.runningActions = SortByDuration(@)]

\* parseProgress(text): only the block after the last cursor-reposition sequence
parseProgress(text) ==
    LET lastBlock == IF text = <<>> THEN <<>> ELSE text[Len(text)]
        info == ParseLines(lastBlock,
                           [completed |-> 0, total |-> 0, runningActions |-> <<>>,
                            logs |-> <<>>, currentLabel |-> <<>>])
    IN [info EXCEPT !.runningActions = SortByDuration(@)]

addRecentLogAlways(recentLogs, log) ==
    LET pushed == Append(recentLogs, log)
    IN IF Len(pushed) > MaxRecentLogs
       THEN SubSeq(pushed, Len(pushed) - MaxRecentLogs + 1, Len(pushed))
       ELSE pushed

addRecentLog(recentLogs, log) ==
    IF recentLogs # <<>> /\ recentLogs[Len(recentLogs)] = log THEN recentLogs
    ELSE LET pushed == Append(recentLogs, log)
         IN IF Len(pushed) > MaxRecentLogs
            THEN SubSeq(pushed, Len(pushed) - MaxRecentLogs + 1, Len(pushed))
            ELSE pushed

RECURSIVE AddProgressLogs(_, _)
AddProgressLogs(recentLogs, logs) ==
    IF logs = <<>> THEN recentLogs
    ELSE AddProgressLogs(addRecentLog(recentLogs, [kind |-> "log", text |-> <<Head(logs)>>]),
                         Tail(logs))

\* else if (id.buildFinished || id.finished)
FinishesBuild(id) == IsFinishedId(id)

StartTimerUnlessLog(l) ==
    IF l.displayMode = "vscode-log" \/ l.timer THEN l
    ELSE [l EXCEPT !.timer = TRUE, !.intervals = @ + 1]

StartTimerUnguarded(l) == [l EXCEPT !.timer = TRUE, !.intervals = @ + 1]

\* if (!this.timer) this.startTimer(), and startTimer's own if (this.timer)
\* return: this.timer = setInterval(...).  timer is whether the field holds a
\* handle, intervals the number of render intervals scheduled and not cleared.
StartTimer(l) ==
    IF l.timer THEN l ELSE [l EXCEPT !.timer = TRUE, !.intervals = @ + 1]

TickWhenFinishedRenders(l) ==
    [l EXCEPT !.timer = FALSE, !.intervals = @ - 1,
              !.spinnerIndex = (@ + 1) % SpinnerLength, !.renders = @ + 1]

\* The else branch of the timer callback: clearInterval(this.timer); this.timer = null
TickWhenFinished(l) == [l EXCEPT !.timer = FALSE, !.intervals = @ - 1]

\* The total time of the [FINISH] line: startTime > 0 ? formatDuration(finishTime -
\* startTime) : "N/A", startTime being 0 when no build-started record is held
FinishTotalTime(s, finished) ==
    LET startTime == IF IsSome(s.buildStarted) THEN Get(s.buildStarted).startTimeMillis ELSE 0
    IN IF startTime > 0
       THEN [shown |-> "duration", ms |-> finished.finishTimeMillis - startTime]
       ELSE [shown |-> "N/A"]

\* The part of LiveBepAnalyzer.processEvent after super.processEvent(event):
\* l the live fields, s the accumulator's fields after the super call
LiveAfterSuper(l, s, event) ==
    LET id == event.id
        data == Data(event)
        dashboard == l.displayMode = "dashboard"
        log == l.displayMode = "vscode-log"
    IN IF IsStartedId(id)
       THEN [StartTimer(l) EXCEPT
                      !.logLines = IF log /\ Has(data, "started") THEN @ + 1 ELSE @]
       ELSE IF id.kind = "actionCompleted"
       THEN IF s.actions = <<>> THEN l
            ELSE LET lastAction == s.actions[Len(s.actions)]
                 IN IF log THEN [l EXCEPT !.logLines = @ + 1]
                    ELSE IF ~dashboard THEN l
                    ELSE IF lastAction.success
                    THEN [l EXCEPT !.recentLogs =
                              addRecentLog(@, [kind |-> "ok", text |-> lastAction.label])]
                    ELSE IF s.actionDetails # "none"
                    THEN [l EXCEPT !.recentLogs =
                              addRecentLog(@, [kind |-> "failed",
                                               text |-> <<lastAction.mnemonic>> \o lastAction.label])]
                    ELSE l
       ELSE IF id.kind = "problem"
       THEN IF ~Has(data, "problem") THEN l
            ELSE IF log THEN [l EXCEPT !.logLines = @ + 1]
            ELSE IF dashboard
            THEN [l EXCEPT !.recentLogs =
                      addRecentLog(@, [kind |-> "problem", text |-> <<data.problem.message>>])]
            ELSE l
       ELSE IF id.kind = "progress"
       THEN LET text == ProgressText(data)
                parsed == parseProgress(text)
                counted == parsed.total > 0 /\ parsed.completed >= 0
            IN [l EXCEPT !.progressText = text,
                         !.lastProgressTotal = IF counted THEN parsed.total ELSE @,
                         !.lastProgressCompleted = IF counted THEN parsed.completed ELSE @,
                         !.lastCurrentLabel =
                             IF parsed.currentLabel # <<>> THEN parsed.currentLabel ELSE @,
                         !.recentLogs = IF dashboard THEN AddProgressLogs(@, parsed.logs) ELSE @]
       ELSE IF FinishesBuild(id)
       THEN [l EXCEPT !.isFinished = TRUE,
                      !.logLines = IF log /\ Has(data, "finished") THEN @ + 1 ELSE @,
                      !.finishTotal = IF log /\ Has(data, "finished")
                                      THEN Some(FinishTotalTime(s, data.finished)) ELSE @]
       ELSE l

stopKeepsTimer(l) == [l EXCEPT !.isFinished = TRUE]

\* LiveBepAnalyzer.stop: if (this.timer) { clearInterval(this.timer); this.timer =
\* null }; this.isFinished = true
stop(l) ==
    [l EXCEPT !.timer = FALSE, !.intervals = IF l.timer THEN @ - 1 ELSE @,
              !.isFinished = TRUE]

-----------------------------------------------------------------------------
(* Events *)

ActionDetailsLevels == {"none", "failed", "all"}

LabelA == <<"/", "/", "a">>
LabelB == <<"/", "/", "b">>
OutFoo == <<"o", "/", "f", ".", "o">>
OutBar == <<"o", "/", "b", ".", "o">>

StartedEvent(kind, t) ==
    [id |-> [kind |-> kind], started |-> [startTimeMillis |-> t, command |-> "build"]]

FinishedEvent(kind, t, ok) ==
    [id |-> [kind |-> kind], finished |-> [finishTimeMillis |-> t, overallSuccess |-> ok]]

\* An action-completed event with structured timing
ActionEvent(label, out, ok, wall) ==
    [id |-> [kind |-> "actionCompleted", label |-> label, primaryOutput |-> out],
     completed |-> [success |-> ok, mnemonic |-> "CppCompile",
                    actionResult |-> [executionInfo |->
                        [startTimeMillis |-> 0, wallTimeMillis |-> wall]],
                    commandLine |-> <<"cc">>, stderr |-> [uri |-> "u1"]]]

\* An action-completed event without actionResult: times is the record of the
\* startTime and endTime fields it carries (none, or both)
TimedActionEvent(label, out, times) ==
    [id |-> [kind |-> "actionCompleted", label |-> label, primaryOutput |-> out],
     completed |-> [success |-> FALSE, mnemonic |-> "Genrule", commandLine |-> <<"sh">>] @@ times]

\* An action-completed event whose id has no payload beside it
BareActionEvent(label) ==
    [id |-> [kind |-> "actionCompleted", label |-> label, primaryOutput |-> <<>>]]

TestSummaryEvent(label, status) ==
    [id |-> [kind |-> "testSummary", label |-> label],
     summary |-> [label |-> <<>>, overallStatus |-> status, totalRunCount |-> 1]]

ProblemEvent(message) ==
    [id |-> [kind |-> "problem"], problem |-> [message |-> message]]

PatternEvent(patterns) == [id |-> [kind |-> "pattern", pattern |-> patterns]]

NamedSetEvent(setId, files, fileSets) ==
    [id |-> [kind |-> "namedSet", id |-> setId],
     namedSetOfFiles |-> [files |-> files, fileSets |-> fileSets]]

TargetCompletedEvent(label, ok, fileSets) ==
    [id |-> [kind |-> "targetCompleted", label |-> label, configId |-> "cfg"],
     completed |-> [success |-> ok, outputGroup |-> <<[name |-> "default", fileSets |-> fileSets]>>]]

ConfigurationEvent(configId, mnemonic) ==
    [id |-> [kind |-> "configuration", id |-> configId],
     configuration |-> [mnemonic |-> mnemonic, cpu |-> "k8"]]

UnknownEvent == [id |-> [kind |-> "unstructuredCommandLine"]]

AbortedEvent == [id |-> [kind |-> "aborted"], aborted |-> [reason |-> "USER_INTERRUPTED"]]

\* A progress event: its text (frames of lines) and the children it announces
ProgressEvent(text, children) ==
    [id |-> [kind |-> "progress"], progress |-> [stderr |-> text], children |-> children]

CounterLine(completed, total, label) ==
    [kind |-> "counter", completed |-> completed, total |-> total, label |-> label,
     relevant |-> FALSE]

\* "<description>; <duration>s <strategy>"
ActionLine(description, duration, strategy) ==
    [kind |-> "action", description |-> description, duration |-> duration,
     strategy |-> strategy, relevant |-> FALSE]

\* a line holding "warning:" or "error:"
LogLine(text) == [kind |-> "log", text |-> text, relevant |-> TRUE]

(* Lines of a line-delimited source *)
BlankLine == [kind |-> "blank"]
GarbageLine == [kind |-> "garbage"]
JsonLine(event) == [kind |-> "json", event |-> event]

IsEventLine(line) == line.kind = "json"

-----------------------------------------------------------------------------
(* Bounds *)

\* Lines handed to an analyzer in one run
MaxEvents == 4

\* Lines the tail delivers in one run
MaxLines == 3

\* Firings of the render timer while the build runs
MaxTicks == 2

-----------------------------------------------------------------------------
(* StaticBepAnalyzer.analyze: the accumulator fed the lines of a file *)

AnalyzeLineRecordsGarbage(s, line) ==
    IF line.kind = "blank" THEN s
    ELSE IF line.kind = "garbage" THEN [s EXCEPT !.problems = Append(@, [message |-> "garbage"])]
    ELSE ProcessEvent(s, line.event)

\* The body of the for-await loop: blank lines are skipped, a line that does not
\* parse is reported and skipped
AnalyzeLine(s, line) ==
    IF line.kind = "blank" THEN s
    ELSE IF line.kind = "garbage" THEN s
    ELSE ProcessEvent(s, line.event)

AccumulatorLines ==
    { JsonLine(e) : e \in
        { StartedEvent("started", 0), FinishedEvent("finished", 600, TRUE),
          ActionEvent(LabelA, OutFoo, TRUE, 500), ActionEvent(LabelB, OutBar, FALSE, 100),
          ActionEvent(LabelA, OutFoo, TRUE, 100),
          BareActionEvent(LabelA),
          TestSummaryEvent(LabelA, "PASSED"), TestSummaryEvent(LabelA, "FAILED"),
          TestSummaryEvent(LabelB, "FLAKY"),
          ProblemEvent("p"), UnknownEvent } } \cup {BlankLine}

\* The parts of the state a run does not use stay as they are here
NoSink == [open |-> FALSE, written |-> <<>>, needDrain |-> FALSE, ended |-> FALSE, finished |-> FALSE]

IdleLive ==
    /\ live = [displayMode |-> "none"]
    /\ tail = [watching |-> FALSE, checkFinished |-> FALSE, promise |-> "none"]
    /\ replica = None
    /\ lastOp = "init"

IdleResolve == rs = [pc |-> "idle"]

NoReport ==
    [pc |-> "idle", terminal |-> None, markdown |-> None, html |-> None, announced |-> None]

IdleReport == reportData = None /\ report = NoReport
IdleSim == sim = [pc |-> "idle"] /\ sink = NoSink

InitAccumulator ==
    /\ analyzer \in {NewAnalyzer(d) : d \in ActionDetailsLevels}
    /\ stream = <<>>
    /\ IdleLive /\ IdleResolve /\ IdleReport /\ IdleSim

\* One turn of the for-await loop of analyze, the file giving one of these lines
AnalyzeFrom(lines) ==
    \E line \in lines :
        /\ Len(stream) < MaxEvents
        /\ analyzer' = AnalyzeLine(analyzer, line)
        /\ stream' = Append(stream, line)
        /\ UNCHANGED <<live, tail, replica, lastOp, rs, reportData, report, sim, sink>>

Analyze == AnalyzeFrom(AccumulatorLines)

SpecAccumulator == InitAccumulator /\ [][Analyze]_vars

-----------------------------------------------------------------------------
(* LiveBepAnalyzer.tailFile: the tail's callbacks and the two timers *)

LiveLines ==
    { JsonLine(e) : e \in
        { StartedEvent("started", 100), FinishedEvent("finished", 600, TRUE),
          FinishedEvent("buildFinished", 700, FALSE),
          ActionEvent(LabelA, OutFoo, TRUE, 500), ActionEvent(LabelB, OutBar, FALSE, 100),
          ProblemEvent("p"), AbortedEvent,
          ProgressEvent(<< <<CounterLine(1, 4, LabelA), LogLine("w1")>> >>,
                        <<[kind |-> "actionCompleted", label |-> LabelB]>>),
          ProgressEvent(<< <<LogLine("w1"), LogLine("w2"), LogLine("w3")>> >>, <<>>) } }
        \cup {BlankLine, GarbageLine}

InitLive ==
    /\ \E d \in ActionDetailsLevels :
          /\ analyzer = NewAnalyzer(d)
          /\ replica = NewAnalyzer(d)
    /\ live \in {NewLive(m) : m \in DisplayModes}
    /\ tail = [watching |-> TRUE, checkFinished |-> TRUE, promise |-> "pending"]
    /\ stream = <<>>
    /\ lastOp = "init"
    /\ IdleResolve /\ IdleReport /\ IdleSim

SuperProcessEventSkipsProblems(s, event) ==
    IF event.id.kind = "problem" THEN s ELSE ProcessEvent(s, event)

\* super.processEvent(event)
SuperProcessEvent(s, event) == ProcessEvent(s, event)

\* tail.on("line", ...): the live analyzer's line handler; the replica is a
\* StaticBepAnalyzer reading the same line
TailLineFrom(lines) ==
    \E line \in lines :
        /\ tail.watching
        /\ Len(stream) < MaxLines
        /\ IF IsEventLine(line)
           THEN /\ analyzer' = SuperProcessEvent(analyzer, line.event)
                /\ live' = LiveAfterSuper(live, analyzer', line.event)
           ELSE UNCHANGED <<analyzer, live>>
        /\ replica' = AnalyzeLine(replica, line)
        /\ stream' = Append(stream, line)
        /\ lastOp' = "line"
        /\ UNCHANGED <<tail, rs, reportData, report, sim, sink>>

TailLine == TailLineFrom(LiveLines)

\* tail.on("error", ...)
TailError ==
    /\ tail.watching
    /\ live' = stop(live)
    /\ tail' = [tail EXCEPT !.promise = IF @ = "pending" THEN "rejected" ELSE @]
    /\ lastOp' = "error"
    /\ UNCHANGED <<analyzer, stream, replica, rs, reportData, report, sim, sink>>

\* The callback of startTimer's setInterval (100 ms)
TimerTick ==
    /\ live.timer
    /\ IF ~live.isFinished
       THEN /\ live.ticks < MaxTicks
            /\ live' = [live EXCEPT
                    !.ticks = @ + 1,
                    !.spinnerIndex = (@ + 1) % SpinnerLength,
                    !.runningTime = IF live.displayMode = "dashboard" THEN live.ticks + 1 ELSE @,
                    !.renders = IF live.displayMode \in {"vscode-status", "dashboard"}
                                THEN @ + 1 ELSE @]
       ELSE live' = TickWhenFinished(live)
    /\ lastOp' = "tick"
    /\ UNCHANGED <<analyzer, stream, tail, replica, rs, reportData, report, sim, sink>>

\* The callback of checkFinished's setInterval (250 ms)
CheckFinished ==
    /\ tail.checkFinished
    /\ IF live.isFinished
       THEN /\ live' = [stop(live) EXCEPT
                    !.finalRenders = IF live.displayMode \in {"vscode-status", "dashboard"}
                                     THEN @ + 1 ELSE @]
            /\ tail' = [watching |-> FALSE, checkFinished |-> FALSE,
                        promise |-> IF tail.promise = "pending" THEN "resolved" ELSE tail.promise]
       ELSE UNCHANGED <<live, tail>>
    /\ lastOp' = "check"
    /\ UNCHANGED <<analyzer, stream, replica, rs, reportData, report, sim, sink>>

NextLive == TailLine \/ TailError \/ TimerTick \/ CheckFinished

SpecLive == InitLive /\ [][NextLive]_vars

\* Frames of a progress payload
Frame1 == <<CounterLine(1, 4, LabelA), ActionLine(OutFoo, 3, "local")>>
Frame2 ==
    <<CounterLine(2, 4, <<>>), ActionLine(OutBar, 5, "remote"), ActionLine(OutFoo, 7, "")>>
Frame3 == <<LogLine("w1")>>

\* Progress events whose payload holds one or two frames
ProgressLines ==
    { JsonLine(ProgressEvent(text, <<>>)) :
          text \in UNION {[1..n -> {Frame1, Frame2, Frame3}] : n \in 1..2} }

TailProgress == TailLineFrom(ProgressLines)

\* The line handler on sequences of progress events
SpecLiveProgress == InitLive /\ [][TailProgress]_vars

\* A build that starts at 0 or at 100, runs two actions and finishes at 600
TimingLines ==
    { JsonLine(e) : e \in
        { StartedEvent("started", 0), StartedEvent("buildStarted", 100),
          ActionEvent(LabelA, OutFoo, TRUE, 500), ActionEvent(LabelB, OutBar, FALSE, 100),
          FinishedEvent("finished", 600, TRUE) } }

TailTiming == TailLineFrom(TimingLines)

\* The line handler on the lines of such a build
SpecLiveTiming == InitLive /\ [][TailTiming]_vars

\* The tail, the render timer and the finish check on the lines of such a
\* build; setInterval keeps calling the finish check until it is cleared
SpecLiveFair ==
    /\ InitLive
    /\ [][TailTiming \/ TailError \/ TimerTick \/ CheckFinished]_vars
    /\ WF_vars(CheckFinished)

\* processEvent alone: the line handler on every sequence of lines, no timer firing
SpecLiveEvents == InitLive /\ [][TailLine]_vars

-----------------------------------------------------------------------------
(* StaticBepAnalyzer.resolveFileSet over a named-set graph *)

SetIds == {"A", "B", "C"}

File1 == [name |-> "file1", uri |-> "file:///file1"]
File2 == [name |-> "file2", uri |-> "file:///file2"]
File3 == [name |-> "file3", uri |-> "file:///file3"]
OwnFile(id) == CASE id = "A" -> File1 [] id = "B" -> File2 [] OTHER -> File3

RECURSIVE SeqOfSet(_)
SeqOfSet(S) ==
    IF S = {} THEN <<>>
    ELSE LET x == CHOOSE y \in S : TRUE IN <<x>> \o SeqOfSet(S \ {x})

\* The NamedSetOfFiles a namedSet event may register under an id
NodesOf(id) ==
    { [files |-> f, fileSets |-> SeqOfSet(r)] :
          f \in {<<>>, <<OwnFile(id)>>, <<File3, OwnFile(id)>>}, r \in SUBSET SetIds }

\* A node, or none when no namedSet event registered the id
MaybeNodesOf(id) == {None} \cup {Some(n) : n \in NodesOf(id)}

\* The map the namedSet events built: the ids given no node were never registered
GraphOf(choice) ==
    [id \in {i \in SetIds : IsSome(choice[i])} |-> Get(choice[id])]

\* const seen = new Set(); const queue = [fileSetId]; const result = []
StartResolve(fileSetId) ==
    [ pc |-> "loop", fileSetId |-> fileSetId, seen |-> {}, queue |-> <<fileSetId>>,
      result |-> <<>>, expanded |-> [id \in SetIds |-> 0] ]

InitResolve ==
    /\ \E a \in MaybeNodesOf("A"), b \in MaybeNodesOf("B"), c \in MaybeNodesOf("C") :
          analyzer = [NewAnalyzer("failed") EXCEPT
                         !.namedSets = GraphOf([A |-> a, B |-> b, C |-> c])]
    /\ rs \in {StartResolve(id) : id \in SetIds}
    /\ stream = <<>>
    /\ IdleLive /\ IdleReport /\ IdleSim

NeverSeen(seen, currentId) == FALSE

\* if (seen.has(currentId)) continue
AlreadySeen(seen, currentId) == currentId \in seen

PushFilesOfLeavesOnly(result, fileSet) ==
    IF fileSet.fileSets = <<>> THEN result \o fileSet.files ELSE result

\* if (fileSet.files) result.push(...fileSet.files)
PushFiles(result, fileSet) == result \o fileSet.files

\* One iteration of while (queue.length > 0)
ResolveLoop ==
    /\ rs.pc = "loop"
    /\ rs.queue # <<>>
    /\ LET currentId == Head(rs.queue)
           rest == Tail(rs.queue)
       IN IF AlreadySeen(rs.seen, currentId)
          THEN rs' = [rs EXCEPT !.queue = rest]
          ELSE IF ~MapHas(analyzer.namedSets, currentId)
          THEN rs' = [rs EXCEPT !.queue = rest, !.seen = @ \cup {currentId}]
          ELSE LET fileSet == analyzer.namedSets[currentId]
               IN rs' = [rs EXCEPT !.queue = rest \o fileSet.fileSets,
                                   !.seen = @ \cup {currentId},
                                   !.result = PushFiles(@, fileSet),
                                   !.expanded[currentId] = @ + 1]
    /\ UNCHANGED <<analyzer, stream, live, tail, replica, lastOp, reportData, report, sim, sink>>

\* return result
ResolveReturn ==
    /\ rs.pc = "loop"
    /\ rs.queue = <<>>
    /\ rs' = [rs EXCEPT !.pc = "done"]
    /\ UNCHANGED <<analyzer, stream, live, tail, replica, lastOp, reportData, report, sim, sink>>

NextResolve == ResolveLoop \/ ResolveReturn

\* The loop is sequential code: it always takes its next step
SpecResolve == InitResolve /\ [][NextResolve]_vars /\ WF_vars(NextResolve)

-----------------------------------------------------------------------------
(* StaticBepAnalyzer.analyze over pattern, target, named-set and configuration events *)

\* A file of progress events that announce an action and of action-completed
\* events, with and without structured timing
DetailLines ==
    { JsonLine(e) : e \in
        { ProgressEvent(<< <<ActionLine(OutFoo, 3, "local"), LogLine("e1")>> >>,
                        <<[kind |-> "actionCompleted", label |-> LabelA]>>),
          ProgressEvent(<< <<ActionLine(OutFoo, 5, "remote")>> >>, <<>>),
          ActionEvent(LabelA, OutFoo, TRUE, 500), ActionEvent(LabelA, OutFoo, FALSE, 100),
          ActionEvent(LabelB, OutBar, FALSE, 100),
          TimedActionEvent(LabelB, OutBar, [x \in {} |-> 0]),
          TimedActionEvent(LabelB, OutBar, [startTime |-> [valid |-> TRUE, ms |-> 100],
                                            endTime |-> [valid |-> TRUE, ms |-> 350]]),
          TimedActionEvent(LabelB, OutBar, [startTime |-> [valid |-> FALSE],
                                            endTime |-> [valid |-> TRUE, ms |-> 350]]) } }

AnalyzeDetails == AnalyzeFrom(DetailLines)

SpecDetails == InitAccumulator /\ [][AnalyzeDetails]_vars

\* A file of the events that fill the pattern list and the maps keyed by id
RegistryLines ==
    { JsonLine(e) : e \in
        { PatternEvent(<<LabelA>>),
          TargetCompletedEvent(LabelA, TRUE, <<"A">>),
          TargetCompletedEvent(<<"@", "@">> \o LabelA, TRUE, <<"A", "B">>),
          TargetCompletedEvent(LabelB, TRUE, <<"B">>),
          TargetCompletedEvent(LabelA, FALSE, <<"A">>),
          NamedSetEvent("A", <<File1>>, <<>>), NamedSetEvent("A", <<File2>>, <<"B">>),
          ConfigurationEvent("cfg", "k8-opt"), ConfigurationEvent("cfg", "k8-dbg") } }

AnalyzeRegistry == AnalyzeFrom(RegistryLines)

SpecRegistry == InitAccumulator /\ [][AnalyzeRegistry]_vars

-----------------------------------------------------------------------------
(* The static command: analyze, getReportData, then the reporters *)

\* resolveFileSet as getReportData calls it: the loop run to its end
RECURSIVE ResolveQueue(_, _, _, _)
ResolveQueue(namedSets, queue, seen, result) ==
    IF queue = <<>> THEN result
    ELSE LET currentId == Head(queue)
             rest == Tail(queue)
         IN IF AlreadySeen(seen, currentId)
            THEN ResolveQueue(namedSets, rest, seen, result)
            ELSE IF ~MapHas(namedSets, currentId)
            THEN ResolveQueue(namedSets, rest, seen \cup {currentId}, result)
            ELSE ResolveQueue(namedSets, rest \o namedSets[currentId].fileSets,
                              seen \cup {currentId},
                              PushFiles(result, namedSets[currentId]))

resolveFileSet(namedSets, fileSetId) == ResolveQueue(namedSets, <<fileSetId>>, {}, <<>>)

\* files.add(file.name) over the files of each id, then Array.from(files)
RECURSIVE AddNames(_, _)
AddNames(names, files) ==
    IF files = <<>> THEN names
    ELSE AddNames(IF \E i \in 1..Len(names) : names[i] = Head(files).name
                  THEN names ELSE Append(names, Head(files).name),
                  Tail(files))

RECURSIVE ResolveIds(_, _, _)
ResolveIds(namedSets, fileSetIds, names) ==
    IF fileSetIds = <<>> THEN names
    ELSE ResolveIds(namedSets, Tail(fileSetIds),
                    AddNames(names, resolveFileSet(namedSets, Head(fileSetIds))))

\* getReportData: resolvedOutputs is a new Map and the records are the objects
\* the accumulator held at the call; the lists and maps (actions, testSummaries,
\* problems, failedTargets, configurations, buildPatterns, convenienceSymlinks)
\* are the accumulator's own objects, so the ReportData has no copy of them
getReportData(s) ==
    [ buildStarted |-> s.buildStarted, buildFinished |-> s.buildFinished,
      buildMetrics |-> s.buildMetrics, buildToolLogs |-> s.buildToolLogs,
      workspaceStatus |-> s.workspaceStatus, optionsParsed |-> s.optionsParsed,
      structuredCommandLine |-> s.structuredCommandLine,
      resolvedOutputs |-> [target \in DOMAIN s.topLevelOutputSets |->
                              ResolveIds(s.namedSets, s.topLevelOutputSets[target], <<>>)],
      actionDetails |-> s.actionDetails ]

\* What a reporter reads through this.data: the fields of the ReportData, the
\* shared lists and maps being those of the accumulator
DataOf(rd, s) ==
    [ buildStarted |-> rd.buildStarted, buildFinished |-> rd.buildFinished,
      resolvedOutputs |-> rd.resolvedOutputs, actionDetails |-> rd.actionDetails,
      actions |-> s.actions, testSummaries |-> s.testSummaries, problems |-> s.problems,
      failedTargets |-> s.failedTargets, configurations |-> s.configurations,
      buildPatterns |-> s.buildPatterns ]

\* sort((a, b) => parseInt(b...wallTimeMillis || "0") - parseInt(a...wallTimeMillis || "0"))
RECURSIVE InsertByWallTime(_, _)
InsertByWallTime(sorted, a) ==
    IF sorted = <<>> THEN <<a>>
    ELSE IF sorted[Len(sorted)].wallTimeMillis >= a.wallTimeMillis THEN Append(sorted, a)
    ELSE Append(InsertByWallTime(SubSeq(sorted, 1, Len(sorted) - 1), a), sorted[Len(sorted)])

RECURSIVE SortByWallTime(_)
SortByWallTime(actions) ==
    IF actions = <<>> THEN <<>>
    ELSE InsertByWallTime(SortByWallTime(SubSeq(actions, 1, Len(actions) - 1)),
                          actions[Len(actions)])

\* slice(0, 10) of the slowest-actions tables
SlowestShown == 10

Slowest(sorted) ==
    [i \in 1..(IF Len(sorted) < SlowestShown THEN Len(sorted) ELSE SlowestShown) |->
        [label |-> sorted[i].label, wallTimeMillis |-> sorted[i].wallTimeMillis]]

Incomplete(data) == ~IsSome(data.buildStarted) \/ ~IsSome(data.buildFinished)

TotalTime(data) ==
    Get(data.buildFinished).finishTimeMillis - Get(data.buildStarted).startTimeMillis

\* Lines a BEP file of the static command may hold
ReportLines ==
    { JsonLine(StartedEvent("started", 0)), JsonLine(FinishedEvent("finished", 600, TRUE)),
      JsonLine(ActionEvent(LabelA, OutFoo, TRUE, 100)),
      JsonLine(ActionEvent(LabelB, OutBar, FALSE, 500)),
      JsonLine(PatternEvent(<<LabelA>>)),
      JsonLine(NamedSetEvent("A", <<File1>>, <<"B", "A">>)),
      JsonLine(TargetCompletedEvent(LabelA, TRUE, <<"A">>)) }

InitReport ==
    /\ analyzer \in {NewAnalyzer(d) : d \in ActionDetailsLevels}
    /\ stream = <<>>
    /\ reportData = None
    /\ report \in {[NoReport EXCEPT !.pc = "analyze"] @@
                       [outputMarkdown |-> md, outputHtml |-> html] : md, html \in BOOLEAN}
    /\ IdleLive /\ IdleResolve /\ IdleSim

\* await analyzer.analyze(filePath, format), line by line
ReportAnalyze == report.pc = "analyze" /\ AnalyzeFrom(ReportLines)

\* const reportData = analyzer.getReportData()
GetReportData ==
    /\ report.pc = "analyze"
    /\ reportData' = Some(getReportData(analyzer))
    /\ report' = [report EXCEPT !.pc = "terminal"]
    /\ UNCHANGED <<analyzer, stream, live, tail, replica, lastOp, rs, sim, sink>>

\* TerminalReporter.printReport: the slowest-actions table sorts the list it
\* took from this.data
PrintReport ==
    /\ report.pc = "terminal"
    /\ LET data == DataOf(Get(reportData), analyzer)
           sorted == SortByWallTime(data.actions)
       IN IF Incomplete(data)
          THEN /\ report' = [report EXCEPT !.pc = "markdown",
                                           !.terminal = Some([error |-> TRUE])]
               /\ UNCHANGED analyzer
          ELSE /\ report' = [report EXCEPT !.pc = "markdown",
                                 !.terminal = Some([error |-> FALSE,
                                                    totalTime |-> TotalTime(data),
                                                    slowest |-> Slowest(sorted)])]
               /\ analyzer' = [analyzer EXCEPT !.actions = sorted]
    /\ UNCHANGED <<stream, live, tail, replica, lastOp, rs, reportData, sim, sink>>

\* if (argv.outputMarkdown) markdownReporter.getReport(): sorts actions.slice()
WriteMarkdown ==
    /\ report.pc = "markdown"
    /\ LET data == DataOf(Get(reportData), analyzer)
       IN report' = [report EXCEPT !.pc = "html",
              !.markdown =
                  IF ~report.outputMarkdown THEN None
                  ELSE IF Incomplete(data) THEN Some([error |-> TRUE])
                  ELSE Some([error |-> FALSE, totalTime |-> TotalTime(data),
                             slowest |-> Slowest(SortByWallTime(data.actions))])]
    /\ UNCHANGED <<analyzer, stream, live, tail, replica, lastOp, rs, reportData, sim, sink>>

\* if (argv.outputHtml) htmlReporter.getReport(): buildReportTab sorts the list
\* it took from this.data
WriteHtml ==
    /\ report.pc = "html"
    /\ LET data == DataOf(Get(reportData), analyzer)
           sorted == SortByWallTime(data.actions)
       IN IF ~report.outputHtml
          THEN /\ report' = [report EXCEPT !.pc = "done"]
               /\ UNCHANGED analyzer
          ELSE IF Incomplete(data)
          THEN /\ report' = [report EXCEPT !.pc = "done", !.html = Some([error |-> TRUE])]
               /\ UNCHANGED analyzer
          ELSE /\ report' = [report EXCEPT !.pc = "done",
                                 !.html = Some([error |-> FALSE,
                                                totalTime |-> TotalTime(data),
                                                slowest |-> Slowest(sorted)])]
               /\ analyzer' = [analyzer EXCEPT !.actions = sorted]
    /\ UNCHANGED <<stream, live, tail, replica, lastOp, rs, reportData, sim, sink>>

\* console.log(chalk.bold.green(translator.t("analysisComplete"))): the last
\* statement of the handler, after which the process ends with exit code 0
AnnounceComplete ==
    /\ report.pc = "done"
    /\ report' = [report EXCEPT !.pc = "exit", !.announced = Some("analysisComplete")]
    /\ UNCHANGED <<analyzer, stream, live, tail, replica, lastOp, rs, reportData, sim, sink>>

NextReport ==
    \/ ReportAnalyze \/ GetReportData \/ PrintReport \/ WriteMarkdown \/ WriteHtml
    \/ AnnounceComplete

SpecReport == InitReport /\ [][NextReport]_vars

-----------------------------------------------------------------------------
(* simulateBepStream: read the source, sort, replay into the target stream *)

\* Records of a length-prefixed binary source
Message(event) == [kind |-> "message", event |-> event]
CorruptMessage == [kind |-> "corrupt"]

\* if (x): null, undefined, 0 and NaN are not taken
Truthy(opt) == IsSome(opt) /\ Get(opt) # 0

\* The millisecond fields are decimal strings in the JSON encoding, so a field
\* that is present passes the tests of lines 20, 24 and 30 whatever its value;
\* parseInt gives the number the model holds
getEventTimestamp(event) ==
    LET data == Data(event)
    IN IF Has(data, "started") /\ Has(data.started, "startTimeMillis")
       THEN Some(data.started.startTimeMillis)
       ELSE IF Has(data, "finished") /\ Has(data.finished, "finishTimeMillis")
       THEN Some(data.finished.finishTimeMillis)
       ELSE IF /\ event.id.kind = "actionCompleted"
               /\ Has(data, "completed")
               /\ Has(data.completed, "actionResult")
               /\ Has(data.completed.actionResult, "executionInfo")
               /\ Has(data.completed.actionResult.executionInfo, "startTimeMillis")
               /\ Has(data.completed.actionResult.executionInfo, "wallTimeMillis")
       THEN LET info == data.completed.actionResult.executionInfo
            IN Some(info.startTimeMillis + info.wallTimeMillis)
       ELSE None

\* The if / else-if / else that pushes one decoded event; idx is the event's
\* position in the source, kept beside it to tell equal lines apart
PushDecoded(m, event, idx) ==
    LET timestamp == getEventTimestamp(event)
        entry(t) == [line |-> JsonLine(event), timestamp |-> t, idx |-> idx]
    IN IF Truthy(timestamp)
       THEN [m EXCEPT !.firstTimestamp = IF ~Truthy(@) THEN timestamp ELSE @,
                      !.events = Append(@, entry(Get(timestamp))),
                      !.lastTimestamp = timestamp]
       ELSE IF Truthy(m.lastTimestamp)
       THEN [m EXCEPT !.events = Append(@, entry(Get(m.lastTimestamp)))]
       ELSE [m EXCEPT !.events = Append(@, entry(0))]

\* Array.prototype.sort with (a, b) => a.timestamp - b.timestamp: a stable sort
RECURSIVE InsertByTimestamp(_, _)
InsertByTimestamp(sorted, e) ==
    IF sorted = <<>> THEN <<e>>
    ELSE IF sorted[Len(sorted)].timestamp <= e.timestamp THEN Append(sorted, e)
    ELSE Append(InsertByTimestamp(SubSeq(sorted, 1, Len(sorted) - 1), e), sorted[Len(sorted)])

RECURSIVE SortByTimestamp(_)
SortByTimestamp(events) ==
    IF events = <<>> THEN <<>>
    ELSE InsertByTimestamp(SortByTimestamp(SubSeq(events, 1, Len(events) - 1)),
                           events[Len(events)])

\* Lines 133-135: the first event takes the first timestamp found when it has none
AdjustFirst(events, firstTimestamp) ==
    IF events[1].timestamp = 0 /\ Truthy(firstTimestamp)
    THEN [events EXCEPT ![1].timestamp = Get(firstTimestamp)]
    ELSE events

TimedDelayUnclamped(m) == (m.events[m.i].timestamp - m.previousTimestamp) \div m.speedFactor

\* Lines 181-186: timeDiff / speedFactor, clamped to maxDelayMs (None: Infinity)
TimedDelay(m) ==
    LET timeDiff == m.events[m.i].timestamp - m.previousTimestamp
        delayTime == timeDiff \div m.speedFactor
    IN IF IsSome(m.maxDelayMs) /\ delayTime > Get(m.maxDelayMs)
       THEN Get(m.maxDelayMs) ELSE delayTime

IntervalMode(m) == m.intervalMs > 0

\* Whether the loop body awaits delay(...) before the write
AwaitsDelay(m) == IntervalMode(m) \/ TimedDelay(m) > 0

DelayOf(m) == IF IntervalMode(m) THEN m.intervalMs ELSE TimedDelay(m)

\* Sources of at most this many lines or records
MaxSource == 3

SimEvents ==
    { StartedEvent("started", 200), StartedEvent("started", 0),
      FinishedEvent("finished", 100, TRUE),
      ActionEvent(LabelA, OutFoo, TRUE, 100), ProblemEvent("p"), UnknownEvent }

JsonSources ==
    UNION {[1..n -> {JsonLine(e) : e \in SimEvents} \cup {BlankLine, GarbageLine}] :
               n \in 0..MaxSource}

PbSources ==
    UNION {[1..n -> {Message(e) : e \in SimEvents} \cup {CorruptMessage}] : n \in 0..MaxSource}

\* speed, max-delay and interval options of the simulate command
SimOptions ==
    { [speedFactor |-> 1, maxDelayMs |-> None, intervalMs |-> 0],
      [speedFactor |-> 2, maxDelayMs |-> Some(50), intervalMs |-> 0],
      [speedFactor |-> 1, maxDelayMs |-> Some(0), intervalMs |-> 0],
      [speedFactor |-> 1, maxDelayMs |-> None, intervalMs |-> 10] }

NewSim(sourceFormat, source, options) ==
    [ pc |-> "read", sourceFormat |-> sourceFormat, source |-> source, pos |-> 1,
      speedFactor |-> options.speedFactor, maxDelayMs |-> options.maxDelayMs,
      intervalMs |-> options.intervalMs,
      events |-> <<>>, lastTimestamp |-> None, firstTimestamp |-> None,
      i |-> 0, previousTimestamp |-> 0, slept |-> FALSE, delays |-> <<>> ]

InitSimulate ==
    /\ sim \in {NewSim("json", src, o) : src \in JsonSources, o \in SimOptions}
                 \cup {NewSim("pb", src, o) : src \in PbSources, o \in SimOptions}
    /\ sink = NoSink
    /\ analyzer = NewAnalyzer("failed")
    /\ stream = <<>>
    /\ IdleLive /\ IdleResolve /\ IdleReport

SkipUndecodable(m) == [m EXCEPT !.pos = @ + 1]

\* catch (e) { console.warn("Failed to parse a PB message, skipping."); break; }
OnDecodeFailure(m) == [m EXCEPT !.pc = "prepare"]

\* What the command handler makes of simulateBepStream: a promise that resolves
\* leaves the try block and the process ends with exit code 0; only a rejection
\* reaches the catch that prints "Simulation failed" and exits with 1
RunOutcome(m) ==
    IF m.pc \in {"done", "returned"} THEN "success"
    ELSE IF m.pc = "rejected" THEN "failed"
    ELSE "running"

\* One iteration of the reading loop (lines 71-99 for pb, 107-123 for json)
SimRead ==
    /\ sim.pc = "read"
    /\ sim.pos <= Len(sim.source)
    /\ LET item == sim.source[sim.pos]
       IN sim' = CASE item.kind \in {"json", "message"} ->
                          [PushDecoded(sim, item.event, sim.pos) EXCEPT !.pos = @ + 1]
                   [] item.kind = "corrupt" -> OnDecodeFailure(sim)
                   [] OTHER -> [sim EXCEPT !.pos = @ + 1]
    /\ UNCHANGED <<analyzer, stream, live, tail, replica, lastOp, rs, reportData, report, sink>>

\* Lines 126-139: the empty check, the adjustment of the first event, the sort,
\* createWriteStream
SimPrepare ==
    /\ \/ sim.pc = "prepare"
       \/ sim.pc = "read" /\ sim.pos > Len(sim.source)
    /\ IF sim.events = <<>>
       THEN /\ sim' = [sim EXCEPT !.pc = "returned"]
            /\ UNCHANGED sink
       ELSE LET sorted == SortByTimestamp(AdjustFirst(sim.events, sim.firstTimestamp))
            IN /\ sim' = [sim EXCEPT !.pc = "replay", !.events = sorted, !.i = 1,
                              !.previousTimestamp =
                                  IF IntervalMode(sim) THEN 0 ELSE sorted[1].timestamp]
               /\ sink' = [sink EXCEPT !.open = TRUE]
    /\ UNCHANGED <<analyzer, stream, live, tail, replica, lastOp, rs, reportData, report>>

\* await delay(intervalMs) / await delay(delayTime)
SimDelay ==
    /\ sim.pc = "replay"
    /\ sim.i <= Len(sim.events)
    /\ ~sim.slept
    /\ AwaitsDelay(sim)
    /\ sim' = [sim EXCEPT !.slept = TRUE, !.delays = Append(@, DelayOf(sim))]
    /\ UNCHANGED <<analyzer, stream, live, tail, replica, lastOp, rs, reportData, report, sink>>

\* The loop moves to the next event (previousTimestamp = event.timestamp in the
\* timed replay)
NextEvent(m) ==
    [m EXCEPT !.pc = "replay", !.i = @ + 1, !.slept = FALSE,
              !.previousTimestamp = IF IntervalMode(m) THEN @ ELSE m.events[m.i].timestamp]

\* targetStream.write(event.line + "\n"): the stream returns false when its
\* buffer is at the high-water mark, and keeps returning false until it drains.
\* The interval loop drops the returned value; the timed replay waits for drain.
SimWrite ==
    /\ sim.pc = "replay"
    /\ sim.i <= Len(sim.events)
    /\ sim.slept \/ ~AwaitsDelay(sim)
    /\ \E canContinue \in IF sink.needDrain THEN {FALSE} ELSE BOOLEAN :
          /\ sink' = [sink EXCEPT
                  !.written = Append(@, [line |-> sim.events[sim.i].line,
                                         terminator |-> "\n",
                                         idx |-> sim.events[sim.i].idx]),
                  !.needDrain = ~canContinue]
          /\ sim' = IF ~IntervalMode(sim) /\ ~canContinue
                    THEN [sim EXCEPT !.pc = "drain"]
                    ELSE NextEvent(sim)
    /\ UNCHANGED <<analyzer, stream, live, tail, replica, lastOp, rs, reportData, report>>

\* The stream emits "drain"; the once("drain") listener of the timed replay resumes
SinkDrain ==
    /\ sink.needDrain
    /\ ~sink.ended
    /\ sink' = [sink EXCEPT !.needDrain = FALSE]
    /\ sim' = IF sim.pc = "drain" THEN NextEvent(sim) ELSE sim
    /\ UNCHANGED <<analyzer, stream, live, tail, replica, lastOp, rs, reportData, report>>

\* targetStream.end(); the interval mode returns right after it
SimEnd ==
    /\ sim.pc = "replay"
    /\ sim.i > Len(sim.events)
    /\ sink' = [sink EXCEPT !.ended = TRUE]
    /\ sim' = [sim EXCEPT !.pc = IF IntervalMode(sim) THEN "done" ELSE "ending"]
    /\ UNCHANGED <<analyzer, stream, live, tail, replica, lastOp, rs, reportData, report>>

\* The stream emits "finish"; the listener of the timed replay resolves the promise
SinkFinish ==
    /\ sink.ended
    /\ ~sink.finished
    /\ sink' = [sink EXCEPT !.finished = TRUE, !.needDrain = FALSE]
    /\ sim' = IF sim.pc = "ending" THEN [sim EXCEPT !.pc = "done"] ELSE sim
    /\ UNCHANGED <<analyzer, stream, live, tail, replica, lastOp, rs, reportData, report>>

NextSimulate == SimRead \/ SimPrepare \/ SimDelay \/ SimWrite \/ SinkDrain \/ SimEnd \/ SinkFinish

SpecSimulate == InitSimulate /\ [][NextSimulate]_vars

\* The timestamp-paced replay (no --interval) of JSON sources
InitSimulateTimed ==
    /\ \E n \in 0..MaxSource :
          \E src \in [1..n -> {JsonLine(e) : e \in {StartedEvent("started", 200),
                                                      ActionEvent(LabelA, OutFoo, TRUE, 100),
                                                      ProblemEvent("p")}}] :
             \E o \in {x \in SimOptions : x.intervalMs = 0} :
                sim = NewSim("json", src, o)
    /\ sink = NoSink
    /\ analyzer = NewAnalyzer("failed")
    /\ stream = <<>>
    /\ IdleLive /\ IdleResolve /\ IdleReport

\* The event loop runs every continuation that is ready, the timers of delay()
\* expire, and the sink drains and finishes without an error
SpecSimulateFair == InitSimulateTimed /\ [][NextSimulate]_vars /\ WF_vars(NextSimulate)

-----------------------------------------------------------------------------
(* Claims about the accumulator *)

HasActionPayload(line) ==
    /\ IsEventLine(line)
    /\ line.event.id.kind = "actionCompleted"
    /\ (Has(Data(line.event), "completed") \/ Has(Data(line.event), "action"))

\* What identifies an action-completed event in the list: label, outcome, wall time
ArrivalOf(line) ==
    [label |-> line.event.id.label, success |-> Data(line.event).completed.success,
     wallTimeMillis |->
         Data(line.event).completed.actionResult.executionInfo.wallTimeMillis]

ArrivedActions == SelectSeq(stream, HasActionPayload)

ActionsInArrivalOrder ==
    /\ Len(analyzer.actions) = Len(ArrivedActions)
    /\ \A i \in 1..Len(ArrivedActions) :
           [label |-> analyzer.actions[i].label, success |-> analyzer.actions[i].success,
            wallTimeMillis |-> analyzer.actions[i].wallTimeMillis] = ArrivalOf(ArrivedActions[i])

AppendsAtMostOne ==
    \/ analyzer'.actions = analyzer.actions
    \/ /\ Len(analyzer'.actions) = Len(analyzer.actions) + 1
       /\ SubSeq(analyzer'.actions, 1, Len(analyzer.actions)) = analyzer.actions

\* C9 (as claimed): every processEvent call leaves the action list unchanged
\* or appends exactly one action at its end, and the list is always in the
\* order in which the action-completed events arrived.
C9_ActionListAppendOnly ==
    /\ [](ActionsInArrivalOrder)
    /\ [][stream' # stream => AppendsAtMostOne]_vars

LastLineIsUnknownKind ==
    /\ stream' # stream
    /\ IsEventLine(stream'[Len(stream')])
    /\ ~IsStartedId(stream'[Len(stream')].event.id)
    /\ ~IsFinishedId(stream'[Len(stream')].event.id)
    /\ stream'[Len(stream')].event.id.kind \notin HandledKinds \cup {"progress"}

\* C17: processEvent on an event of a kind the accumulator does not handle
\* leaves every field of the accumulator as it was.
C17_UnknownKindIgnored == [][LastLineIsUnknownKind => analyzer' = analyzer]_vars

C17_Witness ==
    /\ Len(stream) >= 3
    /\ stream[Len(stream)] = JsonLine(UnknownEvent)
    /\ analyzer.actions # <<>>
    /\ analyzer.testSummaries # <<>>

IsPatternLine(line) == IsEventLine(line) /\ line.event.id.kind = "pattern"

\* The build patterns requested anywhere in the stream
RequestedPatterns == SeqConcat([i \in 1..Len(SelectSeq(stream, IsPatternLine)) |->
                                    SelectSeq(stream, IsPatternLine)[i].event.id.pattern])

ReportedWithOutputs(label) ==
    \E i \in 1..Len(stream) :
        /\ IsEventLine(stream[i])
        /\ stream[i].event.id.kind = "targetCompleted"
        /\ stream[i].event.id.label = label
        /\ Data(stream[i].event).completed.success
        /\ FlatFileSetIds(Data(stream[i].event).completed.outputGroup) # <<>>

\* C15 (as claimed): whatever the order of the pattern and target-completed
\* events, the top-level-output-set map has an entry for a target exactly when
\* a target-completed event reported success for it with at least one file-set
\* id and its label matches a build pattern requested in the stream.
C15_TopLevelOutputsOfRequested ==
    \A label \in {LabelA, LabelB, <<"@", "@">> \o LabelA} :
        MapHas(analyzer.topLevelOutputSets, label)
            <=> (ReportedWithOutputs(label) /\ MatchesPattern(RequestedPatterns, label))

\* C16 (as claimed): a later event carrying an id already registered does not
\* change the named set or the configuration stored under that id.
C16_RegistriesInsertOnly ==
    [][/\ \A id \in DOMAIN analyzer.namedSets :
              analyzer'.namedSets[id] = analyzer.namedSets[id]
       /\ \A id \in DOMAIN analyzer.configurations :
              analyzer'.configurations[id] = analyzer.configurations[id]]_vars

LacksTiming(actionData) ==
    /\ ~Has(actionData, "actionResult")
    /\ Has(actionData, "startTime") =>
           ~(actionData.startTime.valid /\ actionData.endTime.valid)

\* C24 (as claimed): an action-completed event without structured timing whose
\* start and end timestamps are absent or unparseable yields an action of
\* duration zero; with well-formed start and end timestamps the duration is
\* end minus start.
C24_MalformedTimingIsZero ==
    /\ Len(analyzer.actions) = Len(ArrivedActions)
    /\ \A i \in 1..Len(ArrivedActions) :
           LET actionData == Data(ArrivedActions[i].event).completed
               action == analyzer.actions[i]
           IN /\ LacksTiming(actionData) =>
                     action.wallTimeText = "number" /\ action.wallTimeMillis = 0
              /\ (~Has(actionData, "actionResult") /\ ~LacksTiming(actionData)) =>
                     /\ action.wallTimeText = "number"
                     /\ action.wallTimeMillis = actionData.endTime.ms - actionData.startTime.ms

\* The strategies a progress line at position p of the stream infers, by stem
InferredAt(p) ==
    IF IsEventLine(stream[p]) /\ stream[p].event.id.kind = "progress"
    THEN CacheStrategies(EmptyMap, SeqConcat(ProgressText(Data(stream[p].event))))
    ELSE EmptyMap

StemAt(p) == getFileStem(FileScheme \o stream[p].event.id.primaryOutput)

\* The strategy the action-completed event at position p is to receive: that of
\* the latest progress line before p that inferred one for its stem, unless an
\* action of the same stem arrived in between
StrategyDue(p) ==
    LET inferring == {q \in 1..(p - 1) : MapHas(InferredAt(q), StemAt(p))}
    IN IF inferring = {} THEN None
       ELSE LET q == CHOOSE x \in inferring : \A y \in inferring : y <= x
            IN IF \E r \in (q + 1)..(p - 1) :
                      HasActionPayload(stream[r]) /\ StemAt(r) = StemAt(p)
               THEN None
               ELSE Some(InferredAt(q)[StemAt(p)])

ActionIndexOf(p) == Cardinality({q \in 1..p : HasActionPayload(stream[q])})

\* C26: a strategy inferred from a progress line is attached to at most one
\* action: the first action-completed event of that stem after the progress
\* line gets it, a later action of the same stem gets none unless a later
\* progress line inferred one again, and an action whose stem has no cached
\* strategy gets none.
C26_StrategyAttachedOnce ==
    /\ Len(analyzer.actions) = Len(ArrivedActions)
    /\ \A p \in 1..Len(stream) :
           HasActionPayload(stream[p]) =>
               analyzer.actions[ActionIndexOf(p)].strategy = StrategyDue(p)

\* Two actions of one stem arrived after one progress line inferred a strategy:
\* the first carries it and the second carries none
C26_Witness ==
    \E p, r \in 1..Len(stream) :
        /\ p < r
        /\ HasActionPayload(stream[p]) /\ HasActionPayload(stream[r])
        /\ StemAt(p) = StemAt(r)
        /\ IsSome(analyzer.actions[ActionIndexOf(p)].strategy)
        /\ analyzer.actions[ActionIndexOf(r)].strategy = None
        /\ \A q \in p..r : InferredAt(q) = EmptyMap

\* Whether the policy has the action-completed event at position p captured
CapturedAt(p) ==
    \/ analyzer.actionDetails = "all"
    \/ analyzer.actionDetails = "failed" /\ ~Data(stream[p].event).completed.success

\* The excerpt a progress line at position q buffers for a label, if any
ExcerptAt(q, label) ==
    LET line == stream[q]
    IN IF /\ IsEventLine(line) /\ line.event.id.kind = "progress"
          /\ Has(line.event, "children")
          /\ \E i \in 1..Len(line.event.children) :
                 /\ line.event.children[i].kind = "actionCompleted"
                 /\ line.event.children[i].label = label
       THEN SelectSeq(SeqConcat(ProgressText(Data(line.event))), IsRelevantLine)
       ELSE <<>>

\* The buffered excerpt the action at position p finds: the latest one buffered
\* for its label and not used by a captured action of that label since
ExcerptDue(p) ==
    LET label == stream[p].event.id.label
        buffering == {q \in 1..(p - 1) : ExcerptAt(q, label) # <<>>}
    IN IF buffering = {} THEN <<>>
       ELSE LET q == CHOOSE x \in buffering : \A y \in buffering : y <= x
            IN IF \E r \in (q + 1)..(p - 1) :
                      /\ HasActionPayload(stream[r]) /\ CapturedAt(r)
                      /\ stream[r].event.id.label = label
               THEN <<>>
               ELSE ExcerptAt(q, label)

\* C27: command line and error text are on an action exactly as the detail
\* policy says: under "none" on no action, under "failed" only on actions with
\* success = false, under "all" on every action whose event supplies them; the
\* error text is the buffered progress excerpt for the action's label when
\* there is one, which is then removed from the buffer, and the side file's
\* content otherwise.
C27_DetailsFollowPolicy ==
    /\ Len(analyzer.actions) = Len(ArrivedActions)
    /\ \A p \in 1..Len(stream) :
           HasActionPayload(stream[p]) =>
               LET action == analyzer.actions[ActionIndexOf(p)]
                   payload == Data(stream[p].event).completed
               IN IF ~CapturedAt(p)
                  THEN action.argv = None /\ action.stderrContent = None
                  ELSE /\ action.argv = Some(payload.commandLine)
                       /\ action.stderrContent =
                              IF ExcerptDue(p) # <<>>
                              THEN Some([from |-> "progress", text |-> ExcerptDue(p)])
                              ELSE IF Has(payload, "stderr")
                              THEN Some([from |-> "file", text |-> StderrFiles[payload.stderr.uri]])
                              ELSE None

\* Under "failed": a successful action without details, then a failed one with
\* the buffered excerpt, then a failed one of the same label that reads the file
C27_Witness ==
    /\ analyzer.actionDetails = "failed"
    /\ Len(analyzer.actions) = 3
    /\ analyzer.actions[1].success /\ analyzer.actions[1].stderrContent = None
    /\ analyzer.actions[2].stderrContent # None
    /\ Get(analyzer.actions[2].stderrContent).from = "progress"
    /\ analyzer.actions[3].stderrContent # None
    /\ Get(analyzer.actions[3].stderrContent).from = "file"
    /\ analyzer.actions[3].label = analyzer.actions[2].label

HasSummary(line) ==
    IsEventLine(line) /\ line.event.id.kind = "testSummary" /\ Has(Data(line.event), "summary")

SummaryEventsOf(label) ==
    {i \in 1..Len(stream) : HasSummary(stream[i]) /\ stream[i].event.id.label = label}

LastSummaryEventOf(label) ==
    stream[CHOOSE i \in SummaryEventsOf(label) :
               \A j \in SummaryEventsOf(label) : j <= i].event

SummaryLabels ==
    {stream[i].event.id.label : i \in {j \in 1..Len(stream) : HasSummary(stream[j])}}

\* C10: the test-summary collection holds one entry per label seen, the payload
\* of the last test-summary event for that label, and applying a test-summary
\* event twice gives the collection that applying it once gives.
C10_TestSummaryUpsert ==
    LET summaries == analyzer.testSummaries
    IN /\ \A i, j \in 1..Len(summaries) : i # j => summaries[i].label # summaries[j].label
       /\ {summaries[i].label : i \in 1..Len(summaries)} = SummaryLabels
       /\ \A i \in 1..Len(summaries) :
              LET last == LastSummaryEventOf(summaries[i].label)
              IN /\ summaries[i].overallStatus = Data(last).summary.overallStatus
                 /\ summaries[i].totalRunCount = Data(last).summary.totalRunCount
       /\ \A line \in {l \in AccumulatorLines : HasSummary(l)} :
              AnalyzeLine(AnalyzeLine(analyzer, line), line).testSummaries
                  = AnalyzeLine(analyzer, line).testSummaries

C10_Witness ==
    /\ Len(analyzer.testSummaries) = 2
    /\ Cardinality(SummaryEventsOf(LabelA)) >= 2
    /\ analyzer.testSummaries[1].label = LabelA
    /\ analyzer.testSummaries[1].overallStatus = "FAILED"
    /\ \E i \in SummaryEventsOf(LabelA) :
           Data(stream[i].event).summary.overallStatus = "PASSED"

-----------------------------------------------------------------------------
(* Claims about the snapshot *)

\* C8 (as claimed): once getReportData has returned, no step (the reporters
\* generating the terminal, Markdown and HTML reports) changes the accumulator's
\* state, the order of its action list included, and what the snapshot holds
\* does not change.
C8_SnapshotIsolated ==
    [][IsSome(reportData) =>
          /\ analyzer' = analyzer
          /\ DataOf(Get(reportData'), analyzer') = DataOf(Get(reportData), analyzer)]_vars

-----------------------------------------------------------------------------
(* Claims about the live ingestor *)

\* The build state the claim names
BuildState(s) ==
    [ buildStarted |-> s.buildStarted, buildFinished |-> s.buildFinished,
      actions |-> s.actions, testSummaries |-> s.testSummaries, problems |-> s.problems,
      failedTargets |-> s.failedTargets, configurations |-> s.configurations,
      namedSets |-> s.namedSets, topLevelOutputSets |-> s.topLevelOutputSets ]

\* C1: at every prefix of the lines the tail delivered, the live analyzer's build
\* state equals the state of a StaticBepAnalyzer that read the same lines.
C1_LiveEqualsStaticReplay == BuildState(analyzer) = BuildState(replica)

C1_Witness ==
    /\ Len(stream) >= 3
    /\ \A i \in 1..Len(stream) : IsEventLine(stream[i])
    /\ IsSome(analyzer.buildStarted)
    /\ analyzer.actions # <<>>
    /\ analyzer.problems # <<>>

\* C2 (as claimed): once isFinished is true no later callback changes the
\* accumulated state.
C2_NoLineAppliedAfterFinished == [][live.isFinished => analyzer' = analyzer]_vars

LastLineFinishesBuild ==
    /\ lastOp' = "line"
    /\ stream' # stream
    /\ IsEventLine(stream'[Len(stream')])
    /\ IsFinishedId(stream'[Len(stream')].event.id)

\* C3 (as claimed): isFinished becomes true only in the step that processes a
\* build-finished event.
C3_FinishedOnlyByFinishedEvent ==
    [][(~live.isFinished /\ live'.isFinished) => LastLineFinishesBuild]_vars

\* The accumulator after processEvent on each of these events in turn
RECURSIVE Replay(_, _)
Replay(s, lines) ==
    IF lines = <<>> THEN s ELSE Replay(ProcessEvent(s, Head(lines).event), Tail(lines))

\* C12: blank lines and lines that do not parse change nothing and stop nothing:
\* after every delivered line, the state of the live analyzer and that of a
\* StaticBepAnalyzer reading the same lines are the state reached by the same
\* stream without those lines, so every valid line after them is applied.
C12_BadLinesSkipped ==
    LET expected == Replay(NewAnalyzer(analyzer.actionDetails), SelectSeq(stream, IsEventLine))
    IN analyzer = expected /\ replica = expected

C12_Witness ==
    /\ Len(stream) = 3
    /\ stream[1] = GarbageLine
    /\ stream[2] = BlankLine
    /\ IsEventLine(stream[3]) /\ stream[3].event.id.kind = "actionCompleted"
    /\ Len(analyzer.actions) = 1
    /\ Len(replica.actions) = 1

\* stop() has just run: in the tail's error handler, or in the finish check
StopRan == lastOp = "error" \/ (lastOp = "check" /\ ~tail.checkFinished)

\* C18 (as claimed): once the ingestor has been stopped the render timer is
\* cleared, the tailFile promise is settled and the accumulated state stays as
\* it was when it was stopped.
C18_StopReleasesAndFreezes ==
    [][StopRan => /\ ~live.timer
                  /\ tail.promise # "pending"
                  /\ analyzer' = analyzer]_vars

\* C19: when the render timer fires after isFinished is set, it clears itself
\* and does nothing else: no render, and the spinner index, the elapsed time,
\* the other live fields, the tail and the build state stay as they were.
C19_TickAfterFinishedIsNoOp ==
    [][(lastOp' = "tick" /\ live.isFinished) =>
           /\ live' = [live EXCEPT !.timer = FALSE, !.intervals = @ - 1]
           /\ analyzer' = analyzer
           /\ tail' = tail]_vars

\* The timer cleared itself: neither the error handler nor the finish check ran
C19_Witness ==
    /\ lastOp = "tick"
    /\ live.isFinished /\ ~live.timer
    /\ tail.promise = "pending" /\ tail.checkFinished
    /\ live.ticks >= 1
    /\ live.spinnerIndex = live.ticks
    /\ live.displayMode = "dashboard" /\ live.renders = live.ticks

BuildFinishedProcessed ==
    \E i \in 1..Len(stream) : IsEventLine(stream[i]) /\ IsFinishedId(stream[i].event.id)

Released == ~live.timer /\ ~tail.checkFinished /\ ~tail.watching

\* C28 (as claimed): after a build-finished event has been processed, and with
\* the finish check firing, tailFile eventually resolves, and when it resolves
\* the render timer is cleared, the finish check is cleared and the tail is
\* unwatched; it does not resolve without a build-finished event.
C28_FinishedLeadsToResolved ==
    /\ BuildFinishedProcessed ~> (tail.promise = "resolved")
    /\ [](tail.promise = "resolved" => Released /\ BuildFinishedProcessed)

\* C28 (amended): after a build-finished event has been processed, and with the
\* finish check firing, tailFile eventually settles and the render timer, the
\* finish check and the tail are released; the promise resolves unless a read
\* error rejected it before the check fired, and it resolves only after a
\* build-finished event.
C28_FinishedLeadsToSettled ==
    /\ BuildFinishedProcessed ~> (tail.promise \in {"resolved", "rejected"} /\ Released)
    /\ [](tail.promise = "resolved" => Released /\ BuildFinishedProcessed)
    /\ [][tail.promise = "pending" /\ tail'.promise = "rejected" => lastOp' = "error"]_vars
    /\ [][tail.promise = "pending" /\ tail'.promise = "resolved" => lastOp' = "check"]_vars

\* The build finished while the render timer was running, and the finish check
\* resolved the promise
C28_Witness ==
    /\ BuildFinishedProcessed
    /\ tail.promise = "resolved" /\ Released
    /\ lastOp = "check"
    /\ live.ticks > 0

RendersFinally == live.displayMode \in {"dashboard", "vscode-status"}

\* C29: however the line callback, the render timer and the finish check
\* interleave, at most one render interval is scheduled at a time; once the
\* build has finished neither timer emits a regular render, and the finish
\* check emits exactly one final render in the dashboard and vscode-status
\* modes and none in the vscode-log mode, whether or not the render timer
\* fired before it.
C29_OneTimerOneFinalRender ==
    /\ [](live.intervals = IF live.timer THEN 1 ELSE 0)
    /\ [](live.finalRenders = IF ~tail.checkFinished /\ RendersFinally THEN 1 ELSE 0)
    /\ [][live.isFinished => live'.renders = live.renders]_vars

\* The render timer rendered while the build ran; after the build-finished
\* event the finish check emitted the one final render
C29_Witness ==
    /\ BuildFinishedProcessed
    /\ lastOp = "check" /\ ~tail.checkFinished
    /\ live.displayMode = "dashboard"
    /\ live.finalRenders = 1
    /\ live.renders >= 1
    /\ live.spinnerIndex = live.renders
    /\ live.intervals = 0

\* A LiveBepAnalyzer of the given mode after processEvent on each line that parses
RECURSIVE LiveReplay(_, _, _)
LiveReplay(s, l, lines) ==
    IF lines = <<>> THEN [analyzer |-> s, live |-> l]
    ELSE IF ~IsEventLine(Head(lines)) THEN LiveReplay(s, l, Tail(lines))
    ELSE LET after == SuperProcessEvent(s, Head(lines).event)
         IN LiveReplay(after, LiveAfterSuper(l, after, Head(lines).event), Tail(lines))

ModeReplay(mode) == LiveReplay(NewAnalyzer(analyzer.actionDetails), NewLive(mode), stream)

\* What the claim says no display mode changes
ModeView(s, l) ==
    [ state |-> BuildState(s), isFinished |-> l.isFinished, timer |-> l.timer,
      lastProgressTotal |-> l.lastProgressTotal,
      lastProgressCompleted |-> l.lastProgressCompleted,
      lastCurrentLabel |-> l.lastCurrentLabel ]

\* C20: for every sequence of lines, analyzers of the three display modes fed
\* that sequence agree on the build state, the finished flag, whether the
\* render timer was started, the last progress counters and the current label
\* (and the analyzer that ran holds exactly those).
C20_ModeIndependentState ==
    LET view == [m \in DisplayModes |->
                    LET r == ModeReplay(m) IN ModeView(r.analyzer, r.live)]
    IN /\ \A m \in DisplayModes : view[m] = view["dashboard"]
       /\ ModeView(analyzer, live) = view[live.displayMode]

C20_Witness ==
    /\ live.displayMode = "vscode-log"
    /\ Len(stream) = 3
    /\ IsSome(analyzer.buildStarted) /\ IsSome(analyzer.buildFinished)
    /\ live.lastProgressTotal = 4 /\ live.lastCurrentLabel = LabelA
    /\ live.logLines = 2
    /\ live.isFinished
    /\ ModeReplay("dashboard").live.recentLogs # <<>>
    /\ ModeReplay("dashboard").live.timer

\* The recent-activity entries one event offers, in order
ActivityOf(event, actionDetails) ==
    LET data == Data(event)
    IN CASE event.id.kind = "actionCompleted" /\ Has(data, "completed") ->
              IF data.completed.success
              THEN <<[kind |-> "ok", text |-> event.id.label]>>
              ELSE IF actionDetails # "none"
              THEN <<[kind |-> "failed",
                      text |-> <<data.completed.mnemonic>> \o event.id.label]>>
              ELSE <<>>
         [] event.id.kind = "problem" /\ Has(data, "problem") ->
              <<[kind |-> "problem", text |-> <<data.problem.message>>]>>
         [] event.id.kind = "progress" ->
              LET lines == SeqConcat(ProgressText(data))
                  logs == SelectSeq(lines, IsRelevantLine)
              IN [i \in 1..Len(logs) |-> [kind |-> "log", text |-> <<logs[i].text>>]]
         [] OTHER -> <<>>

\* The entries accepted so far: an entry equal to the last accepted one is dropped
RECURSIVE Accept(_, _)
Accept(accepted, offered) ==
    IF offered = <<>> THEN accepted
    ELSE Accept(IF accepted # <<>> /\ accepted[Len(accepted)] = Head(offered)
                THEN accepted ELSE Append(accepted, Head(offered)),
                Tail(offered))

RECURSIVE AcceptedOf(_, _)
AcceptedOf(lines, accepted) ==
    IF lines = <<>> THEN accepted
    ELSE AcceptedOf(Tail(lines),
                    IF IsEventLine(Head(lines))
                    THEN Accept(accepted, ActivityOf(Head(lines).event, analyzer.actionDetails))
                    ELSE accepted)

\* C21: the dashboard's recent-activity list holds at most 5 entries, they are
\* the last entries accepted, in arrival order, and no entry equals the entry
\* before it.
C21_RecentActivityRing ==
    live.displayMode = "dashboard" =>
        LET accepted == AcceptedOf(stream, <<>>)
            n == Len(accepted)
            ring == live.recentLogs
        IN /\ Len(ring) <= 5
           /\ ring = SubSeq(accepted, IF n > 5 THEN n - 4 ELSE 1, n)
           /\ \A i \in 2..Len(ring) : ring[i] # ring[i - 1]

C21_Witness ==
    /\ live.displayMode = "dashboard"
    /\ Len(AcceptedOf(stream, <<>>)) > 5
    /\ Len(live.recentLogs) = 5
    /\ \E i \in 1..(Len(stream) - 1) : stream[i] = stream[i + 1] /\ IsEventLine(stream[i])

ActionNamesOf(frame) ==
    {frame[i].description : i \in {j \in 1..Len(frame) : frame[j].kind = "action"}}

\* C22: for every progress payload, parseProgress returns the counters, the
\* current label and the running actions it returns for the payload's last
\* frame alone, and reports no action that only an earlier frame names; the
\* counters kept by the live analyzer are those of the last frame.
C22_ParseProgressLastFrame ==
    \A i \in 1..Len(stream) :
        LET text == ProgressText(Data(stream[i].event))
            lastFrame == text[Len(text)]
            full == parseProgress(text)
            alone == parseProgress(<<lastFrame>>)
        IN /\ full.completed = alone.completed
           /\ full.total = alone.total
           /\ full.currentLabel = alone.currentLabel
           /\ full.runningActions = alone.runningActions
           /\ \A k \in 1..Len(full.runningActions) :
                  full.runningActions[k].name \in ActionNamesOf(lastFrame)
           /\ (i = Len(stream) /\ alone.total > 0) =>
                  /\ live.lastProgressTotal = alone.total
                  /\ live.lastProgressCompleted = alone.completed

\* Two frames, the earlier one naming an action the last one does not
C22_Witness ==
    /\ stream # <<>>
    /\ ProgressText(Data(stream[Len(stream)].event)) = <<Frame2, Frame1>>
    /\ live.lastProgressCompleted = 1
    /\ live.lastCurrentLabel = LabelA

StartedAt(i) == IsEventLine(stream[i]) /\ IsStartedId(stream[i].event.id)
FinishedAt(i) == IsEventLine(stream[i]) /\ IsFinishedId(stream[i].event.id)

\* One build-started event first, one build-finished event last, actions between
IsOneBuild ==
    /\ Len(stream) >= 2
    /\ StartedAt(1) /\ FinishedAt(Len(stream))
    /\ \A i \in 2..(Len(stream) - 1) : HasActionPayload(stream[i])

\* C23 (as claimed): for a stream of one build-started event (start time S,
\* S = 0 included), action-completed events with a structured wall time and one
\* build-finished event (finish time F), the action list has one entry per
\* action-completed event, with that event's wall time, and the total build
\* duration reported is F - S.
C23_DurationsAndTotal ==
    IsOneBuild =>
        /\ Len(analyzer.actions) = Len(stream) - 2
        /\ \A i \in 1..Len(analyzer.actions) :
               analyzer.actions[i].wallTimeMillis = ArrivalOf(stream[i + 1]).wallTimeMillis
        /\ live.displayMode = "vscode-log" =>
               live.finishTotal =
                   Some([shown |-> "duration",
                         ms |-> Data(stream[Len(stream)].event).finished.finishTimeMillis
                                - Data(stream[1].event).started.startTimeMillis])

-----------------------------------------------------------------------------
(* Claims about the simulator *)

\* C4 (as claimed): in every replay mode, after a write returned the "cannot
\* accept more" signal the simulator writes nothing until the sink has drained.
C4_NoWriteBeforeDrain ==
    [][sink.needDrain => sink'.written = sink.written]_vars

\* The positions of the source that were decoded: every parsed line of a JSON
\* source, the records before the first undecodable one of a binary source
Decoded ==
    { p \in 1..Len(sim.source) :
          /\ sim.source[p].kind \in {"json", "message"}
          /\ \A q \in 1..(p - 1) : sim.source[q].kind # "corrupt" }

Carries(p) == IsSome(getEventTimestamp(sim.source[p].event))

\* The derived timestamp as specified: the event's own, else that of the nearest
\* preceding event that carried one, else 0
DerivedTimestamp(p) ==
    IF Carries(p) THEN Get(getEventTimestamp(sim.source[p].event))
    ELSE LET before == {q \in Decoded : q < p /\ Carries(q)}
         IN IF before = {} THEN 0
            ELSE Get(getEventTimestamp(
                     sim.source[CHOOSE q \in before : \A r \in before : r <= q].event))

Before(p, q) ==
    \/ DerivedTimestamp(p) < DerivedTimestamp(q)
    \/ DerivedTimestamp(p) = DerivedTimestamp(q) /\ p < q

\* The decoded positions in the order of a stable sort by derived timestamp
RECURSIVE StableOrder(_)
StableOrder(ps) ==
    IF ps = {} THEN <<>>
    ELSE LET first == CHOOSE p \in ps : \A q \in ps \ {p} : Before(p, q)
         IN <<first>> \o StableOrder(ps \ {first})

\* C5 (as claimed): what the simulator writes is the decoded events, each once
\* and followed by a line terminator, in the order of a stable sort by derived
\* timestamp, whatever speedFactor and maxDelay are.
C5_WrittenInStableDerivedOrder ==
    LET expected == StableOrder(Decoded)
    IN /\ Len(sink.written) <= Len(expected)
       /\ \A k \in 1..Len(sink.written) :
              /\ sink.written[k].idx = expected[k]
              /\ sink.written[k].line = JsonLine(sim.source[expected[k]].event)
              /\ sink.written[k].terminator = "\n"
       /\ sim.pc = "done" => Len(sink.written) = Len(expected)

HitsDecodeFailure ==
    sim.sourceFormat = "pb" /\ \E p \in 1..Len(sim.source) : sim.source[p].kind = "corrupt"

EventPositions == {sim.events[k].idx : k \in 1..Len(sim.events)}

\* C25 (as claimed): once the source is read and prepared for the replay, the
\* timestamp the simulator holds for each event is the event's own start time,
\* finish time or start plus wall time; for an event carrying none, that of the
\* nearest preceding event in the source that carried one, and 0 when none did.
C25_DerivedTimestampAsSpecified ==
    sim.pc \in {"replay", "drain", "ending", "done"} =>
        \A k \in 1..Len(sim.events) :
            sim.events[k].timestamp = DerivedTimestamp(sim.events[k].idx)

TimedReplay == sim.pc = "replay" /\ ~IntervalMode(sim)

WroteEveryEvent ==
    /\ Len(sink.written) = Len(sim.events)
    /\ \A k \in 1..Len(sim.events) :
           /\ sink.written[k].line = sim.events[k].line
           /\ sink.written[k].idx = sim.events[k].idx

\* C30: in the timestamp-paced replay, with the sink draining after every
\* refused write and raising no error, the simulator eventually has written
\* every event, ended the sink and resolved its promise; every delay it waits
\* is non-negative and at most maxDelay.
C30_TimedReplayCompletes ==
    /\ TimedReplay ~> (sim.pc = "done" /\ sink.ended /\ WroteEveryEvent)
    /\ [](sim.pc # "idle" /\ ~IntervalMode(sim) =>
              \A k \in 1..Len(sim.delays) :
                  /\ sim.delays[k] >= 0
                  /\ IsSome(sim.maxDelayMs) => sim.delays[k] <= Get(sim.maxDelayMs))

\* A timed replay of three events that waited a delay cut down to maxDelay and
\* ended resolved
C30_Witness ==
    /\ sim.pc = "done" /\ ~IntervalMode(sim)
    /\ sink.ended /\ sink.finished
    /\ Len(sim.events) = 3 /\ WroteEveryEvent
    /\ sim.maxDelayMs = Some(50)
    /\ \E k \in 1..Len(sim.delays) : sim.delays[k] = 50

\* C13: in a binary source the reading loop stops at the first record that
\* fails to decode: no record after it is ever decoded, and the events decoded
\* before it are all kept (and are what the replay then writes).
C13_PbStopsAtDecodeFailure ==
    sim.sourceFormat = "pb" =>
        /\ EventPositions \subseteq Decoded
        /\ Len(sim.events) = Cardinality(EventPositions)
        /\ \A k \in 1..Len(sim.events) :
               sim.events[k].line = JsonLine(sim.source[sim.events[k].idx].event)
        /\ sim.pc = "read" => \A p \in 1..(sim.pos - 1) : p \in EventPositions
        /\ sim.pc # "read" => EventPositions = Decoded
        /\ sim.pc = "done" => {sink.written[k].idx : k \in 1..Len(sink.written)} = Decoded

C13_Witness ==
    /\ sim.sourceFormat = "pb"
    /\ Len(sim.source) = 3
    /\ sim.source[1].kind = "message"
    /\ sim.source[2].kind = "corrupt"
    /\ sim.source[3].kind = "message"
    /\ sim.pc = "done"
    /\ Len(sink.written) = 1
    /\ sink.written[1].idx = 1

\* C14 (as claimed): a run whose binary source had a record that failed to
\* decode does not end as a success.
C14_DecodeFailureFailsRun == HitsDecodeFailure => RunOutcome(sim) # "success"

-----------------------------------------------------------------------------
(* Claims about the resolver *)

\* C6: resolveFileSet returns for every graph (cycles, self-references and
\* unregistered ids included) and expands each id at most once.
C6_ResolveTerminates ==
    /\ [](\A id \in SetIds : rs.expanded[id] <= 1)
    /\ <>(rs.pc = "done")

HasCycleThroughRoot ==
    LET g == analyzer.namedSets
    IN /\ MapHas(g, "A") /\ MapHas(g, "B")
       /\ \E i \in 1..Len(g["A"].fileSets) : g["A"].fileSets[i] = "B"
       /\ \E i \in 1..Len(g["B"].fileSets) : g["B"].fileSets[i] = "A"
       /\ \E i \in 1..Len(g["B"].fileSets) : g["B"].fileSets[i] = "B"
       /\ \E i \in 1..Len(g["B"].fileSets) : g["B"].fileSets[i] = "C"
       /\ ~MapHas(g, "C")

C6_Witness ==
    /\ rs.pc = "done"
    /\ rs.fileSetId = "A"
    /\ HasCycleThroughRoot
    /\ rs.expanded["A"] = 1 /\ rs.expanded["B"] = 1

\* The ids reachable from the root through registered nodes
RECURSIVE ReachFrom(_, _)
ReachFrom(ids, n) ==
    IF n = 0 THEN ids
    ELSE ReachFrom(ids \cup
                   { r \in SetIds : \E id \in ids :
                         /\ MapHas(analyzer.namedSets, id)
                         /\ \E i \in 1..Len(analyzer.namedSets[id].fileSets) :
                                analyzer.namedSets[id].fileSets[i] = r },
                   n - 1)

ReachableRegistered ==
    {id \in ReachFrom({rs.fileSetId}, Cardinality(SetIds)) : MapHas(analyzer.namedSets, id)}

Occurrences(list, x) == Cardinality({i \in 1..Len(list) : list[i] = x})

RECURSIVE SumOver(_, _)
SumOver(ids, x) ==
    IF ids = {} THEN 0
    ELSE LET id == CHOOSE y \in ids : TRUE
         IN Occurrences(analyzer.namedSets[id].files, x) + SumOver(ids \ {id}, x)

IsScenarioGraph ==
    /\ DOMAIN analyzer.namedSets = {"A", "B"}
    /\ analyzer.namedSets["A"] = [files |-> <<File1>>, fileSets |-> <<>>]
    /\ analyzer.namedSets["B"] = [files |-> <<File2>>, fileSets |-> <<"A">>]
    /\ rs.fileSetId = "B"

\* C7: the result holds the direct files of the registered nodes reachable from
\* the root, each node's files once; for A -> [file1], B -> [ref A, file2],
\* resolving B gives exactly file1 and file2.
C7_ResolveResult ==
    rs.pc = "done" =>
        /\ \A f \in {File1, File2, File3} :
               Occurrences(rs.result, f) = SumOver(ReachableRegistered, f)
        /\ IsScenarioGraph =>
               /\ Len(rs.result) = 2
               /\ {rs.result[i] : i \in 1..Len(rs.result)} = {File1, File2}

\* A child shared by two paths: A refers to B and C, and B refers to C too
C7_Witness ==
    /\ rs.pc = "done"
    /\ rs.fileSetId = "A"
    /\ DOMAIN analyzer.namedSets = {"A", "B", "C"}
    /\ analyzer.namedSets["A"].fileSets = SeqOfSet({"B", "C"})
    /\ analyzer.namedSets["B"].fileSets = <<"C">>
    /\ analyzer.namedSets["A"].files = <<File1>>
    /\ analyzer.namedSets["B"].files = <<File2>>
    /\ analyzer.namedSets["C"].files = <<File3>>
    /\ Len(rs.result) = 3

-----------------------------------------------------------------------------
(* Claims about the static command *)

\* C11 (as claimed): when no build-started or no build-finished record was
\* accumulated (an empty input and a finished event with no started event
\* included), every report asked for is refused with the incomplete-stream
\* error and the run does not end announced as a complete analysis.
C11_IncompleteRunRefused ==
    (report.pc = "exit" /\ Incomplete(DataOf(Get(reportData), analyzer))) =>
        /\ Get(report.terminal).error
        /\ IsSome(report.markdown) => Get(report.markdown).error
        /\ IsSome(report.html) => Get(report.html).error
        /\ report.announced # Some("analysisComplete")

=============================================================================
